---- MODULE Spec2Model ----
(***************************************************************************)
(* Loss functions of gluoncv/loss.py as state machines.                    *)
(*                                                                         *)
(* Tensors are functions from index sets to numbers.  Real-valued entries  *)
(* are exact rationals <<numerator, denominator>> (denominator > 0); the   *)
(* element-wise cross entropy values that the framework computes from the  *)
(* predictions (log_softmax + pick) are inputs drawn from small sets.      *)
(***************************************************************************)
EXTENDS Integers, Sequences, FiniteSets, TLC

(***************************************************************************)
(* Bounds of the model.                                                    *)
(***************************************************************************)
MaxMinHardNegatives == 1
MaxLoss == 2
MaxTemperature == 3
\* largest number of epochs, of mini-batches of the training data and of
\* devices of the training loop
MaxEpochs == 3
MaxNumBatch == 2
MaxCtx == 2
\* largest box coordinate of the IoU inputs
MaxCoord == 2

\* shapes of the inputs, <<devices, anchors of the image on a device>>: lists
\* over two devices, or single arrays (which _as_list wraps into one-entry lists)
Shapes == {<<2, 2>>, <<1, 3>>}
\* class targets: -1 ignore, 0 background, 1 an object class
ClsTargetValues == {-1, 0, 1}
\* element-wise cross entropy values -log_softmax(cp)[ct]
LossValues == 0 .. MaxLoss
\* element-wise |box_pred - box_target|
BoxAbsValues == {0, 2}
\* constructor arguments of SSDMultiBoxLoss
RatioArgs == {<<-1, 1>>, <<1, 2>>, <<1, 1>>}
\* lambd other than the default 1.0, which MultiBoxInit takes
LambdArgs == {2}
MinHardNegativesArgs == -1 .. MaxMinHardNegatives

(***************************************************************************)
(* Exact rational arithmetic.                                              *)
(***************************************************************************)
Max(a, b) == IF a >= b THEN a ELSE b

Rat(n) == <<n, 1>>

RLess(a, b) == a[1] * b[2] < b[1] * a[2]

REq(a, b) == a[1] * b[2] = b[1] * a[2]

RLeq(a, b) == a[1] * b[2] <= b[1] * a[2]

RMax(a, b) == IF RLess(a, b) THEN b ELSE a

RAdd(a, b) == <<a[1] * b[2] + b[1] * a[2], a[2] * b[2]>>

RMul(a, b) == <<a[1] * b[1], a[2] * b[2]>>

\* a / n for an integer n > 0
RDivInt(a, n) == <<a[1], a[2] * n>>

RECURSIVE SumOver(_, _)
SumOver(f, S) ==
    IF S = {} THEN 0
    ELSE LET x == CHOOSE y \in S : TRUE IN f[x] + SumOver(f, S \ {x})

RECURSIVE RSumOver(_, _)
RSumOver(f, S) ==
    IF S = {} THEN Rat(0)
    ELSE LET x == CHOOSE y \in S : TRUE IN RAdd(f[x], RSumOver(f, S \ {x}))

RECURSIVE SeqSum(_)
SeqSum(s) == IF s = <<>> THEN 0 ELSE Head(s) + SeqSum(Tail(s))

(***************************************************************************)
(* SSDMultiBoxLoss and YOLACTMultiBoxLoss                                  *)
(***************************************************************************)
VARIABLES
    block,                  \* the class forward is called on
    negative_mining_ratio,  \* self._negative_mining_ratio (rational)
    min_hard_negatives,     \* self._min_hard_negatives
    lambd,                  \* self._lambd
    cls_target,             \* input: per device, per anchor class target
    pc,                     \* position in forward
    i,                      \* device the current loop is at, 0 before a loop
    num_pos,                \* list of per-device positive counts
    num_pos_all,            \* cross-device sum
    branch,                 \* "none", "dummy" or "mining"
    ce_loss,                \* line 157: element-wise cross entropy
    rank,                   \* line 158
    hard_negative,          \* line 159
    cls_loss,               \* line 162: masked cross entropy
    box_abs,                \* line 166: |bp - bt|
    box_loss,               \* line 170: masked smooth-L1
    cls_losses, box_losses, sum_losses,   \* the returned lists
    mask_losses,            \* YOLACTMultiBoxLoss: the fourth returned list
    cls_norm, box_norm      \* divisor used for each entry of the lists

ssdvars == <<block, negative_mining_ratio, min_hard_negatives, lambd, cls_target, pc, i,
             num_pos, num_pos_all, branch, ce_loss, rank, hard_negative,
             cls_loss, box_abs, box_loss, cls_losses, box_losses, sum_losses,
             mask_losses, cls_norm, box_norm>>

\* YOLOV3Loss
VARIABLES
    objness_t,          \* input: objectness target per anchor (rational)
    obj_elem,           \* element-wise sigmoid cross entropy of (objness, hard_objness_t)
    hard_objness_t,     \* line 235
    new_objness_mask,   \* line 236
    obj_weighted,       \* element-wise loss times its sample weight
    obj_loss            \* lines 237-238

yolovars == <<objness_t, obj_elem, hard_objness_t, new_objness_mask, obj_weighted, obj_loss>>

\* SoftmaxCrossEntropyLoss / SoftmaxCrossEntropyOHEMLoss
VARIABLES
    ohem,               \* TRUE for SoftmaxCrossEntropyOHEMLoss
    ignore_label,       \* self._ignore_label
    label,              \* input: sparse label per position
    nll,                \* -log(softmaxout) per position and class
    sce_elem,           \* loss after F.where
    sce_out             \* F.mean(loss, ...)

scevars == <<ohem, ignore_label, label, nll, sce_elem, sce_out>>

\* DistillationSoftmaxCrossEntropyLoss
VARIABLES
    temperature,        \* self._temperature
    hard_weight,        \* self._hard_weight (rational)
    soft_value,         \* value of self.soft_loss(output / temperature, soft_target)
    hard_value,         \* value of self.hard_loss(output, label)
    distill_out         \* what hybrid_forward returns

distillvars == <<temperature, hard_weight, soft_value, hard_value, distill_out>>

\* train() of train_pointnet.py
VARIABLES
    epochs,          \* argument of train()
    num_ctx,         \* len(ctx), the devices a mini-batch is split over
    num_batch,       \* len(train_data)
    lr_decay_epoch,  \* epochs at which the learning rate decays, ends with inf
    tpc,             \* position in train()
    epoch,           \* index of the epoch loop
    batch_i,         \* index i of the mini-batch loop
    output,          \* devices whose network output was computed, in order
    loss_list,       \* the list loss: devices whose loss was computed, in order
    backward_calls,  \* devices whose loss had backward() called, this batch
    step_calls,      \* calls of trainer.step so far
    iteration,
    lr_decay_count,
    lr_decays        \* calls of trainer.set_learning_rate so far

trainvars == <<epochs, num_ctx, num_batch, lr_decay_epoch, tpc, epoch, batch_i, output,
               loss_list, backward_calls, step_calls, iteration, lr_decay_count, lr_decays>>

\* MaskLoss.crop and YOLACTMultiBoxLoss.crop
VARIABLES
    crop_bboxes,  \* argument bboxes, one <<x1, y1, x2, y2>> per box
    crop_masks,   \* argument masks of the first call, [box][y][x]
    crop_out      \* the masks returned by the calls so far, each call being
                  \* given the masks the call before it returned

cropvars == <<crop_bboxes, crop_masks, crop_out>>

\* IOULoss.hybrid_forward, one predicted and one ground-truth box
VARIABLES
    iou_pred,     \* pred, <<px1, py1, px2, py2>>
    iou_gt,       \* gt, <<gx1, gy1, gx2, gy2>>
    iou_label,    \* label
    ious,         \* the IoU value returned when return_iou is True
    fg_mask,
    iou_clipped   \* F.minimum(ious + eps, 1.), the argument of the logarithm

iouvars == <<iou_pred, iou_gt, iou_label, ious, fg_mask, iou_clipped>>

vars == <<ssdvars, yolovars, scevars, distillvars, trainvars, cropvars, iouvars>>

nonssd == <<yolovars, scevars, distillvars, trainvars, cropvars, iouvars>>

nonyolo == <<ssdvars, scevars, distillvars, trainvars, cropvars, iouvars>>

nonsce == <<ssdvars, yolovars, distillvars, trainvars, cropvars, iouvars>>

nondistill == <<ssdvars, yolovars, scevars, trainvars, cropvars, iouvars>>

nontrain == <<ssdvars, yolovars, scevars, distillvars, cropvars, iouvars>>

noncrop == <<ssdvars, yolovars, scevars, distillvars, trainvars, iouvars>>

noniou == <<ssdvars, yolovars, scevars, distillvars, trainvars, cropvars>>

Blocks == {"SSDMultiBoxLoss", "YOLACTMultiBoxLoss"}

\* default of the rho argument
Rho == 1

\* defaults of negative_mining_ratio and lambd
DefaultRatio == <<3, 1>>
DefaultLambd == 1

\* YOLACTMultiBoxLoss: defaults of conf_lambd, box_lambd and mask_lambd
ConfLambd == <<1, 1>>
BoxLambd == <<3, 2>>
MaskLambd == <<5, 4>>
\* values of one device's mask_loss(...)
MaskLossValues == {0, 1}

Unset == <<>>

\* the class targets of inputs of shape s: a list of per-device tensors
TargetsOfShape(s) == [1 .. s[1] -> [0 .. s[2] - 1 -> ClsTargetValues]]

\* pos = ct > 0, as a 0/1 tensor
Pos(ct) == [a \in DOMAIN ct |-> IF ct[a] > 0 THEN 1 ELSE 0]

\* pos_samples.sum()
PosCount(ct) == SumOver(Pos(ct), DOMAIN ct)

DummyCondEither == num_pos_all < 1 \/ min_hard_negatives < 1

\* num_pos_all < 1 and self._min_hard_negatives < 1
DummyCond == num_pos_all < 1 /\ min_hard_negatives < 1

NormalizerFirstDevice == Max(1, num_pos[1])

\* max(1., num_pos_all)
Normalizer == Max(1, num_pos_all)

SortKeyEasiestFirst(ce, pos) == [a \in DOMAIN ce |-> ce[a] * (1 - pos[a])]

\* cls_loss * (pos - 1)
SortKey(ce, pos) == [a \in DOMAIN ce |-> ce[a] * (pos[a] - 1)]

\* the results argsort(axis=1) may give: the indices in ascending order of
\* the values, equal values in any order
Argsort(key) ==
    {p \in [DOMAIN key -> DOMAIN key] :
        /\ \A a, b \in DOMAIN key : a # b => p[a] # p[b]
        /\ \A a, b \in DOMAIN key : a < b => key[p[a]] <= key[p[b]]}

\* (...).argsort(axis=1).argsort(axis=1)
Ranks(key) == UNION {Argsort(order) : order \in Argsort(key)}

\* nd.maximum(self._min_hard_negatives, pos.sum(axis=1) * self._negative_mining_ratio)
NumHard(pos) ==
    RMax(Rat(min_hard_negatives), RMul(Rat(SumOver(pos, DOMAIN pos)), negative_mining_ratio))

HardNegativeInclusive(r, pos) ==
    [a \in DOMAIN r |-> IF RLeq(Rat(r[a]), NumHard(pos)) THEN 1 ELSE 0]

\* rank < nd.maximum(...)
HardNegative(r, pos) ==
    [a \in DOMAIN r |-> IF RLess(Rat(r[a]), NumHard(pos)) THEN 1 ELSE 0]

\* nd.where((pos + hard_negative) > 0, cls_loss, zeros)
MaskCls(ce, pos, hn) ==
    [a \in DOMAIN ce |-> IF pos[a] + hn[a] > 0 THEN ce[a] ELSE 0]

\* smooth L1 of one element
SmoothL1(d) ==
    IF d > Rho THEN <<2 * d - Rho, 2>> ELSE <<d * d, 2 * Rho>>

MaskBoxNone(ab, pos) ==
    [a \in DOMAIN ab |-> SmoothL1(ab[a])]

\* box_loss * pos.expand_dims(axis=-1)
MaskBox(ab, pos) ==
    [a \in DOMAIN ab |-> RMul(SmoothL1(ab[a]), Rat(pos[a]))]

\* nd.sum(cls_loss, axis=0, exclude=True) / max(1., num_pos_all),
\* times conf_lambd in YOLACTMultiBoxLoss
ClsEntry(masked) ==
    IF block = "YOLACTMultiBoxLoss"
    THEN RDivInt(RMul(ConfLambd, Rat(SumOver(masked, DOMAIN masked))), Normalizer)
    ELSE RDivInt(Rat(SumOver(masked, DOMAIN masked)), Normalizer)

\* nd.sum(box_loss, axis=0, exclude=True) / max(1., num_pos_all),
\* times box_lambd in YOLACTMultiBoxLoss
BoxEntry(bl) ==
    IF block = "YOLACTMultiBoxLoss"
    THEN RDivInt(RMul(BoxLambd, RSumOver(bl, DOMAIN bl)), Normalizer)
    ELSE RDivInt(RSumOver(bl, DOMAIN bl), Normalizer)

SumLossUnweighted(c, b) == RAdd(c, b)

\* cls_losses[-1] + self._lambd * box_losses[-1]
SumLoss(c, b) == RAdd(c, RMul(Rat(lambd), b))

\* cls_losses[-1] + box_losses[-1] + mask_losses[-1]
YolactSumLoss(c, b, m) == RAdd(RAdd(c, b), m)

\* the state forward starts in, for every constructor argument
SSDInit ==
    /\ block = "SSDMultiBoxLoss"
    /\ \E r \in RatioArgs : negative_mining_ratio = RMax(Rat(0), r)
    /\ \E m \in MinHardNegativesArgs : min_hard_negatives = Max(0, m)
    /\ lambd \in LambdArgs
    /\ \E s \in Shapes : cls_target \in TargetsOfShape(s)
    /\ pc = "count"
    /\ i = 0
    /\ num_pos = <<>>
    /\ num_pos_all = 0
    /\ branch = "none"
    /\ ce_loss = Unset /\ rank = Unset /\ hard_negative = Unset /\ cls_loss = Unset
    /\ box_abs = Unset /\ box_loss = Unset
    /\ cls_losses = <<>> /\ box_losses = <<>> /\ sum_losses = <<>>
    /\ mask_losses = <<>>
    /\ cls_norm = <<>> /\ box_norm = <<>>

\* either class, built with the default arguments and any min_hard_negatives
MultiBoxInit ==
    /\ block \in Blocks
    /\ negative_mining_ratio = RMax(Rat(0), DefaultRatio)
    /\ \E m \in MinHardNegativesArgs : min_hard_negatives = Max(0, m)
    /\ lambd = DefaultLambd
    /\ \E s \in Shapes : cls_target \in TargetsOfShape(s)
    /\ pc = "count"
    /\ i = 0
    /\ num_pos = <<>>
    /\ num_pos_all = 0
    /\ branch = "none"
    /\ ce_loss = Unset /\ rank = Unset /\ hard_negative = Unset /\ cls_loss = Unset
    /\ box_abs = Unset /\ box_loss = Unset
    /\ cls_losses = <<>> /\ box_losses = <<>> /\ sum_losses = <<>>
    /\ mask_losses = <<>>
    /\ cls_norm = <<>> /\ box_norm = <<>>

\* the length of the input lists
LastDevice == Len(cls_target)

\* lines 138-140 (534-536), one iteration
CountPos ==
    /\ pc = "count"
    /\ i' = i + 1
    /\ num_pos' = Append(num_pos, PosCount(cls_target[i + 1]))
    /\ pc' = IF i + 1 = LastDevice THEN "reduce" ELSE "count"
    /\ UNCHANGED nonssd
    /\ UNCHANGED <<block, negative_mining_ratio, min_hard_negatives, lambd, cls_target,
                   num_pos_all, branch, ce_loss, rank, hard_negative, cls_loss,
                   box_abs, box_loss, cls_losses, box_losses, sum_losses,
                   mask_losses, cls_norm, box_norm>>

\* line 141 (537)
Reduce ==
    /\ pc = "reduce"
    /\ num_pos_all' = SeqSum(num_pos)
    /\ pc' = "branch"
    /\ i' = 0
    /\ UNCHANGED nonssd
    /\ UNCHANGED <<block, negative_mining_ratio, min_hard_negatives, lambd, cls_target,
                   num_pos, branch, ce_loss, rank, hard_negative, cls_loss,
                   box_abs, box_loss, cls_losses, box_losses, sum_losses,
                   mask_losses, cls_norm, box_norm>>

\* lines 142-147 (538-544): nd.sum(cp * 0), nd.sum(bp * 0), nd.sum(me * 0)
\* and their sum, per device
DummyLosses ==
    /\ pc = "branch"
    /\ DummyCond
    /\ cls_losses' = [d \in DOMAIN cls_target |-> Rat(0)]
    /\ box_losses' = [d \in DOMAIN cls_target |-> Rat(0)]
    /\ IF block = "YOLACTMultiBoxLoss"
       THEN /\ mask_losses' = [d \in DOMAIN cls_target |-> Rat(0)]
            /\ sum_losses' = [d \in DOMAIN cls_target |-> RAdd(RAdd(Rat(0), Rat(0)), Rat(0))]
       ELSE /\ mask_losses' = mask_losses
            /\ sum_losses' = [d \in DOMAIN cls_target |-> RAdd(Rat(0), Rat(0))]
    /\ branch' = "dummy"
    /\ pc' = "done"
    /\ UNCHANGED nonssd
    /\ UNCHANGED <<block, negative_mining_ratio, min_hard_negatives, lambd, cls_target, i,
                   num_pos, num_pos_all, ce_loss, rank, hard_negative, cls_loss,
                   box_abs, box_loss, cls_norm, box_norm>>

\* a loop iteration of the mining path starts
IterationStart ==
    \/ pc = "branch" /\ ~DummyCond
    \/ pc = "next"

\* YOLACTMultiBoxLoss, line 554: the mask loss of one loop iteration
MaskLossStep ==
    /\ block = "YOLACTMultiBoxLoss"
    /\ IterationStart
    /\ i' = i + 1
    /\ \E m \in MaskLossValues :
          mask_losses' = Append(mask_losses, RMul(MaskLambd, Rat(m)))
    /\ branch' = "mining"
    /\ pc' = "cls"
    /\ UNCHANGED nonssd
    /\ UNCHANGED <<block, negative_mining_ratio, min_hard_negatives, lambd, cls_target,
                   num_pos, num_pos_all, ce_loss, rank, hard_negative, cls_loss,
                   box_abs, box_loss, cls_losses, box_losses, sum_losses,
                   cls_norm, box_norm>>

\* lines 155-163 (556-564), the classification part of one loop iteration
ClsLossStep ==
    /\ IF block = "YOLACTMultiBoxLoss"
       THEN pc = "cls" /\ i' = i
       ELSE IterationStart /\ i' = i + 1
    /\ LET pos == Pos(cls_target[i']) IN
       \E ce \in [DOMAIN pos -> LossValues] :
       \E r \in Ranks(SortKey(ce, pos)) :
         LET hn == HardNegative(r, pos)
             masked == MaskCls(ce, pos, hn)
         IN /\ ce_loss' = ce
            /\ rank' = r
            /\ hard_negative' = hn
            /\ cls_loss' = masked
            /\ cls_losses' = Append(cls_losses, ClsEntry(masked))
            /\ cls_norm' = Append(cls_norm, Normalizer)
    /\ branch' = "mining"
    /\ pc' = "box"
    /\ box_abs' = Unset /\ box_loss' = Unset
    /\ UNCHANGED nonssd
    /\ UNCHANGED <<block, negative_mining_ratio, min_hard_negatives, lambd, cls_target,
                   num_pos, num_pos_all, box_losses, sum_losses, mask_losses, box_norm>>

\* lines 165-172 (566-573), the box part of one loop iteration
BoxLossStep ==
    /\ pc = "box"
    /\ LET pos == Pos(cls_target[i]) IN
       \E ab \in [DOMAIN pos -> BoxAbsValues] :
         LET bl == MaskBox(ab, pos)
             entry == BoxEntry(bl)
         IN /\ box_abs' = ab
            /\ box_loss' = bl
            /\ box_losses' = Append(box_losses, entry)
            /\ box_norm' = Append(box_norm, Normalizer)
            /\ sum_losses' =
                  Append(sum_losses,
                         IF block = "YOLACTMultiBoxLoss"
                         THEN YolactSumLoss(cls_losses[Len(cls_losses)], entry,
                                            mask_losses[Len(mask_losses)])
                         ELSE SumLoss(cls_losses[Len(cls_losses)], entry))
    /\ pc' = IF i = LastDevice THEN "done" ELSE "next"
    /\ UNCHANGED nonssd
    /\ UNCHANGED <<block, negative_mining_ratio, min_hard_negatives, lambd, cls_target, i,
                   num_pos, num_pos_all, branch, ce_loss, rank, hard_negative,
                   cls_loss, cls_losses, mask_losses, cls_norm>>

\* the block is not in use
SSDIdle ==
    /\ block = "none"
    /\ negative_mining_ratio = Rat(0) /\ min_hard_negatives = 0 /\ lambd = 1
    /\ cls_target = Unset
    /\ pc = "idle"
    /\ i = 0
    /\ num_pos = <<>>
    /\ num_pos_all = 0
    /\ branch = "none"
    /\ ce_loss = Unset /\ rank = Unset /\ hard_negative = Unset /\ cls_loss = Unset
    /\ box_abs = Unset /\ box_loss = Unset
    /\ cls_losses = <<>> /\ box_losses = <<>> /\ sum_losses = <<>>
    /\ mask_losses = <<>>
    /\ cls_norm = <<>> /\ box_norm = <<>>

(***************************************************************************)
(* YOLOV3Loss: the objectness loss                                         *)
(***************************************************************************)
\* anchors of one sample
YoloAnchors == 0 .. 2
\* objectness targets: -1 ignore, 0 negative, 1 positive, 1/2 a mixup weight
ObjnessValues == {<<-1, 1>>, <<0, 1>>, <<1, 2>>, <<1, 1>>}

\* F.where(objness_t > 0, F.ones_like(objness_t), objness_t)
HardObjness(t) ==
    [a \in YoloAnchors |-> IF RLess(Rat(0), t[a]) THEN Rat(1) ELSE t[a]]

NewObjnessMaskBinary(t) ==
    [a \in YoloAnchors |-> IF RLeq(Rat(0), t[a]) THEN Rat(1) ELSE Rat(0)]

\* F.where(objness_t > 0, objness_t, objness_t >= 0)
NewObjnessMask(t) ==
    [a \in YoloAnchors |->
        IF RLess(Rat(0), t[a]) THEN t[a]
        ELSE IF RLeq(Rat(0), t[a]) THEN Rat(1) ELSE Rat(0)]

\* gluon's _apply_weighting with a sample weight: loss * sample_weight
ApplyWeighting(elem, weight) ==
    [a \in YoloAnchors |-> RMul(Rat(elem[a]), weight[a])]

\* denorm: the number of elements of objness_t except the batch axis
Denorm == Cardinality(YoloAnchors)

\* mean over the non-batch axes, then broadcast_mul by denorm
ObjLoss(weighted) ==
    RMul(RDivInt(RSumOver(weighted, YoloAnchors), Cardinality(YoloAnchors)), Rat(Denorm))

YoloInit ==
    /\ objness_t \in [YoloAnchors -> ObjnessValues]
    /\ obj_elem = Unset /\ hard_objness_t = Unset /\ new_objness_mask = Unset
    /\ obj_weighted = Unset /\ obj_loss = Unset

YoloIdle ==
    /\ objness_t = Unset
    /\ obj_elem = Unset /\ hard_objness_t = Unset /\ new_objness_mask = Unset
    /\ obj_weighted = Unset /\ obj_loss = Unset

\* lines 235-238
YoloObjness ==
    /\ objness_t # Unset
    /\ obj_loss = Unset
    /\ \E elem \in [YoloAnchors -> LossValues] :
         LET mask == NewObjnessMask(objness_t)
             weighted == ApplyWeighting(elem, mask)
         IN /\ obj_elem' = elem
            /\ hard_objness_t' = HardObjness(objness_t)
            /\ new_objness_mask' = mask
            /\ obj_weighted' = weighted
            /\ obj_loss' = ObjLoss(weighted)
    /\ UNCHANGED objness_t
    /\ UNCHANGED nonyolo

(***************************************************************************)
(* SoftmaxCrossEntropyLoss and SoftmaxCrossEntropyOHEMLoss, sparse labels  *)
(***************************************************************************)
\* positions (batch and spatial) of the label tensor
Positions == 0 .. 1
Classes == 0 .. 1
IgnoreLabelArgs == {-1, 1}

\* F.pick(x, index, axis=1) clips the index into the class range
Pick(row, index) ==
    LET lo == 0
        hi == Cardinality(Classes) - 1
    IN row[IF index < lo THEN lo ELSE IF index > hi THEN hi ELSE index]

MaskMinusOne(lab, loss) ==
    [p \in Positions |-> IF lab[p] = -1 THEN 0 ELSE loss[p]]

\* F.where(label.expand_dims(axis=1) == self._ignore_label, F.zeros_like(loss), loss)
MaskIgnored(lab, loss) ==
    [p \in Positions |-> IF lab[p] = ignore_label THEN 0 ELSE loss[p]]

\* F.mean(loss, axis=self._batch_axis, exclude=True)
MeanLoss(loss) == <<SumOver(loss, Positions), Cardinality(Positions)>>

SceInit ==
    /\ ohem \in BOOLEAN
    /\ ignore_label \in IgnoreLabelArgs
    /\ label \in [Positions -> Classes \cup {ignore_label}]
    /\ nll = Unset /\ sce_elem = Unset /\ sce_out = Unset

SceIdle ==
    /\ ohem = FALSE /\ ignore_label = -1 /\ label = Unset
    /\ nll = Unset /\ sce_elem = Unset /\ sce_out = Unset

\* SoftmaxCrossEntropyLoss.hybrid_forward, lines 278-289 with sparse labels
SoftmaxCE ==
    /\ label # Unset /\ ~ohem
    /\ sce_out = Unset
    /\ \E logp \in [Positions -> [Classes -> LossValues]] :
         LET loss == [p \in Positions |-> Pick(logp[p], label[p])]
             masked == MaskIgnored(label, loss)
         IN /\ nll' = logp
            /\ sce_elem' = masked
            /\ sce_out' = MeanLoss(masked)
    /\ UNCHANGED <<ohem, ignore_label, label>>
    /\ UNCHANGED nonsce

\* SoftmaxCrossEntropyOHEMLoss.hybrid_forward, lines 384-392
SoftmaxCEOHEM ==
    /\ label # Unset /\ ohem
    /\ sce_out = Unset
    /\ \E logp \in [Positions -> [Classes -> LossValues]] :
         LET loss == [p \in Positions |-> Pick(logp[p], label[p])]
             masked == MaskIgnored(label, loss)
         IN /\ nll' = logp
            /\ sce_elem' = masked
            /\ sce_out' = MeanLoss(masked)
    /\ UNCHANGED <<ohem, ignore_label, label>>
    /\ UNCHANGED nonsce

(***************************************************************************)
(* DistillationSoftmaxCrossEntropyLoss                                     *)
(***************************************************************************)
HardWeightArgs == {<<0, 1>>, <<1, 4>>, <<1, 2>>, <<3, 4>>, <<1, 1>>}

\* (self._temperature ** 2) * self.soft_loss(output / self._temperature, soft_target)
SoftTerm == RMul(Rat(temperature * temperature), Rat(soft_value))

\* self.hard_loss(output, label)
HardTerm == Rat(hard_value)

DistillLossSoftUnscaled ==
    IF REq(hard_weight, Rat(0)) THEN Rat(soft_value)
    ELSE IF REq(hard_weight, Rat(1)) THEN HardTerm
    ELSE RAdd(RMul(RAdd(Rat(1), RMul(Rat(-1), hard_weight)), SoftTerm),
              RMul(hard_weight, HardTerm))

\* hybrid_forward, lines 451-460
DistillLoss ==
    IF REq(hard_weight, Rat(0)) THEN SoftTerm
    ELSE IF REq(hard_weight, Rat(1)) THEN HardTerm
    ELSE RAdd(RMul(RAdd(Rat(1), RMul(Rat(-1), hard_weight)), SoftTerm),
              RMul(hard_weight, HardTerm))

DistillInit ==
    /\ temperature \in 1 .. MaxTemperature
    /\ hard_weight \in HardWeightArgs
    /\ soft_value \in LossValues
    /\ hard_value \in LossValues
    /\ distill_out = Unset

DistillIdle ==
    /\ temperature = 1 /\ hard_weight = Rat(0)
    /\ soft_value = 0 /\ hard_value = 0
    /\ distill_out = Unset

DistillForward ==
    /\ distill_out = Unset
    /\ distill_out' = DistillLoss
    /\ UNCHANGED <<temperature, hard_weight, soft_value, hard_value>>
    /\ UNCHANGED nondistill

(***************************************************************************)
(* train() of scripts/classification/pointcloud/train_pointnet.py          *)
(***************************************************************************)
\* np.inf, the sentinel that ends lr_decay_epoch
Inf == MaxEpochs + 1

\* values of --lr-decay-epoch, each followed by the sentinel
LrDecayEpochArgs == {<<Inf>>, <<1, Inf>>, <<0, 2, Inf>>}

\* the position after the loss of one more device had backward() called:
\* trainer.step follows the loop over all the losses
AfterBackwardFirstOnly(n) == "step"

AfterBackward(n) == IF n = num_ctx THEN "step" ELSE "backward"

\* the position after a mini-batch: the next mini-batch or the end of the epoch
AfterBatch(n) == IF n < num_batch THEN "forward" ELSE "epoch_end"

TrainInit ==
    /\ epochs \in 0 .. MaxEpochs
    /\ num_ctx \in 1 .. MaxCtx
    /\ num_batch \in 0 .. MaxNumBatch
    /\ lr_decay_epoch \in LrDecayEpochArgs
    /\ tpc = "epoch"
    /\ epoch = 0 /\ batch_i = 0
    /\ output = <<>> /\ loss_list = <<>> /\ backward_calls = <<>>
    /\ step_calls = 0 /\ iteration = 0
    /\ lr_decay_count = 0 /\ lr_decays = 0

TrainIdle ==
    /\ epochs = 0 /\ num_ctx = 1 /\ num_batch = 0
    /\ lr_decay_epoch = <<Inf>>
    /\ tpc = "idle"
    /\ epoch = 0 /\ batch_i = 0
    /\ output = <<>> /\ loss_list = <<>> /\ backward_calls = <<>>
    /\ step_calls = 0 /\ iteration = 0
    /\ lr_decay_count = 0 /\ lr_decays = 0

\* top of the epoch loop: resets, the learning-rate decay, and the first
\* mini-batch of the epoch if there is one
EpochStart ==
    /\ tpc = "epoch" /\ epoch < epochs
    /\ IF epoch = lr_decay_epoch[lr_decay_count + 1]
          THEN lr_decays' = lr_decays + 1 /\ lr_decay_count' = lr_decay_count + 1
          ELSE UNCHANGED <<lr_decays, lr_decay_count>>
    /\ batch_i' = 0
    /\ output' = <<>> /\ loss_list' = <<>> /\ backward_calls' = <<>>
    /\ tpc' = AfterBatch(0)
    /\ UNCHANGED <<epochs, num_ctx, num_batch, lr_decay_epoch, epoch, step_calls,
                   iteration>>
    /\ UNCHANGED nontrain

\* output = [net(X)[0] for X in data], one device at a time
NetForward ==
    /\ tpc = "forward"
    /\ output' = Append(output, Len(output) + 1)
    /\ tpc' = IF Len(output') = num_ctx THEN "loss" ELSE "forward"
    /\ UNCHANGED <<epochs, num_ctx, num_batch, lr_decay_epoch, epoch, batch_i, loss_list,
                   backward_calls, step_calls, iteration, lr_decay_count, lr_decays>>
    /\ UNCHANGED nontrain

\* loss = [loss_fn(yhat, y) for yhat, y in zip(output, label)], one at a time
LossFn ==
    /\ tpc = "loss"
    /\ loss_list' = Append(loss_list, output[Len(loss_list) + 1])
    /\ tpc' = IF Len(loss_list') = num_ctx THEN "backward" ELSE "loss"
    /\ UNCHANGED <<epochs, num_ctx, num_batch, lr_decay_epoch, epoch, batch_i, output,
                   backward_calls, step_calls, iteration, lr_decay_count, lr_decays>>
    /\ UNCHANGED nontrain

\* for l in loss: l.backward()
Backward ==
    /\ tpc = "backward"
    /\ backward_calls' = Append(backward_calls, loss_list[Len(backward_calls) + 1])
    /\ tpc' = AfterBackward(Len(backward_calls'))
    /\ UNCHANGED <<epochs, num_ctx, num_batch, lr_decay_epoch, epoch, batch_i, output,
                   loss_list, step_calls, iteration, lr_decay_count, lr_decays>>
    /\ UNCHANGED nontrain

\* trainer.step(batch_size)
TrainerStep ==
    /\ tpc = "step"
    /\ step_calls' = step_calls + 1
    /\ tpc' = "update"
    /\ UNCHANGED <<epochs, num_ctx, num_batch, lr_decay_epoch, epoch, batch_i, output,
                   loss_list, backward_calls, iteration, lr_decay_count, lr_decays>>
    /\ UNCHANGED nontrain

\* the rest of the loop body (train_loss, train_metric, iteration += 1) and
\* the step of enumerate(train_data) to the next mini-batch
BatchEnd ==
    /\ tpc = "update"
    /\ iteration' = iteration + 1
    /\ batch_i' = batch_i + 1
    /\ output' = <<>> /\ loss_list' = <<>> /\ backward_calls' = <<>>
    /\ tpc' = AfterBatch(batch_i')
    /\ UNCHANGED <<epochs, num_ctx, num_batch, lr_decay_epoch, epoch, step_calls,
                   lr_decay_count, lr_decays>>
    /\ UNCHANGED nontrain

\* after the mini-batches: train_loss /= batch_size * num_batch raises
\* ZeroDivisionError when the loader has no batch; otherwise validation,
\* history and checkpoints, and the next epoch
EpochEnd ==
    /\ tpc = "epoch_end"
    /\ IF num_batch = 0
          THEN tpc' = "error" /\ UNCHANGED epoch
          ELSE tpc' = "epoch" /\ epoch' = epoch + 1
    /\ UNCHANGED <<epochs, num_ctx, num_batch, lr_decay_epoch, batch_i, output, loss_list,
                   backward_calls, step_calls, iteration, lr_decay_count, lr_decays>>
    /\ UNCHANGED nontrain

\* the epoch loop is exhausted: the last checkpoint, and train() returns
TrainReturn ==
    /\ tpc = "epoch" /\ epoch >= epochs
    /\ tpc' = "done"
    /\ UNCHANGED <<epochs, num_ctx, num_batch, lr_decay_epoch, epoch, batch_i, output,
                   loss_list, backward_calls, step_calls, iteration, lr_decay_count,
                   lr_decays>>
    /\ UNCHANGED nontrain

(***************************************************************************)
(* MaskLoss.crop and YOLACTMultiBoxLoss.crop (the same code twice)         *)
(***************************************************************************)
\* scale = 4
Scale == 4

\* the boxes of a call, the rows and the columns of a mask
CropBoxes == 1 .. 2
MaskRows == 0 .. 1
MaskCols == 0 .. 1
\* box coordinates, in pixels of the image, and mask values
XCoords == {-2, 2, 6}
YCoords == {0, 2}
MaskValues == {0, 1}

Abs(n) == IF n < 0 THEN -n ELSE n

\* nd.round(v / scale): to the nearest integer, halves away from zero
RoundDiv(v, scale) ==
    IF v >= 0 THEN (2 * v + scale) \div (2 * scale)
    ELSE -((2 * (-v) + scale) \div (2 * scale))

\* (_w > x1) * (_w < x2)
WindowExclusive(v, lo, hi) == IF v > lo /\ v < hi THEN 1 ELSE 0

\* (_w >= x1) * (_w <= x2), elementwise
Window(v, lo, hi) == IF v >= lo /\ v <= hi THEN 1 ELSE 0

\* crop(bboxes, h, w, masks)
Crop(bboxes, h, w, masks) ==
    LET x1 == [b \in DOMAIN bboxes |-> RoundDiv(bboxes[b][1], Scale)]
        y1 == [b \in DOMAIN bboxes |-> RoundDiv(bboxes[b][2], Scale)]
        x2 == [b \in DOMAIN bboxes |-> RoundDiv(bboxes[b][3], Scale)]
        y2 == [b \in DOMAIN bboxes |-> RoundDiv(bboxes[b][4], Scale)]
        _w == [b \in DOMAIN bboxes |-> [x \in 0 .. w - 1 |-> Window(x, x1[b], x2[b])]]
        _h == [b \in DOMAIN bboxes |-> [y \in 0 .. h - 1 |-> Window(y, y1[b], y2[b])]]
        _mask == [b \in DOMAIN bboxes |->
                    [y \in 0 .. h - 1 |-> [x \in 0 .. w - 1 |-> _h[b][y] * _w[b][x]]]]
    IN [b \in DOMAIN bboxes |->
          [y \in 0 .. h - 1 |-> [x \in 0 .. w - 1 |-> _mask[b][y][x] * masks[b][y][x]]]]

CropInit ==
    /\ crop_bboxes \in [CropBoxes -> XCoords \X YCoords \X XCoords \X YCoords]
    /\ crop_masks \in [CropBoxes -> [MaskRows -> [MaskCols -> MaskValues]]]
    /\ crop_out = <<>>

CropIdle ==
    /\ crop_bboxes = <<>> /\ crop_masks = <<>> /\ crop_out = <<>>

\* one call of crop, on the masks the previous call returned if there was one
CropCall ==
    /\ crop_bboxes # <<>>
    /\ Len(crop_out) < 2
    /\ LET masks == IF crop_out = <<>> THEN crop_masks ELSE crop_out[Len(crop_out)]
       IN crop_out' = Append(crop_out,
                             Crop(crop_bboxes, Cardinality(MaskRows),
                                  Cardinality(MaskCols), masks))
    /\ UNCHANGED <<crop_bboxes, crop_masks>>
    /\ UNCHANGED noncrop

(***************************************************************************)
(* IOULoss.hybrid_forward (MaskFCOSLoss.forward repeats the computation)   *)
(***************************************************************************)
\* eps=1e-5
Eps == <<1, 100000>>

Min(a, b) == IF a <= b THEN a ELSE b

RMin(a, b) == IF RLess(b, a) THEN b ELSE a

\* boxes with integer coordinates and x1 <= x2, y1 <= y2
WellFormedBoxes ==
    {box \in (0 .. MaxCoord) \X (0 .. MaxCoord) \X (0 .. MaxCoord) \X (0 .. MaxCoord) :
        box[1] <= box[3] /\ box[2] <= box[4]}

\* ious of one predicted box p and one ground-truth box g
IoUs(p, g) ==
    LET apd == Abs(p[3] - p[1] + 1) * Abs(p[4] - p[2] + 1)
        agt == Abs(g[3] - g[1] + 1) * Abs(g[4] - g[2] + 1)
        iw == Max(Min(p[3], g[3]) - Max(p[1], g[1]) + 1, 0)
        ih == Max(Min(p[4], g[4]) - Max(p[2], g[2]) + 1, 0)
        ain == iw * ih + 1
        union == apd + agt - ain + 1
    IN RMax(<<ain, union>>, Rat(0))

\* F.where(label > 0, F.ones_like(label), F.zeros_like(label))
FgMask(lab) == IF lab > 0 THEN 1 ELSE 0

IouInit ==
    /\ iou_pred \in WellFormedBoxes
    /\ iou_gt \in WellFormedBoxes
    /\ iou_label \in {0, 1}
    /\ ious = Unset /\ fg_mask = Unset /\ iou_clipped = Unset

IouIdle ==
    /\ iou_pred = <<>> /\ iou_gt = <<>> /\ iou_label = 0
    /\ ious = Unset /\ fg_mask = Unset /\ iou_clipped = Unset

\* hybrid_forward up to the logarithm of the clipped IoU
IouForward ==
    /\ iou_pred # <<>> /\ ious = Unset
    /\ ious' = IoUs(iou_pred, iou_gt)
    /\ fg_mask' = FgMask(iou_label)
    /\ iou_clipped' = RMin(RAdd(ious', Eps), Rat(1))
    /\ UNCHANGED <<iou_pred, iou_gt, iou_label>>
    /\ UNCHANGED noniou

(***************************************************************************)
(* Specifications                                                          *)
(***************************************************************************)
Init == SSDInit /\ YoloIdle /\ SceIdle /\ DistillIdle /\ TrainIdle /\ CropIdle /\ IouIdle

Next == CountPos \/ Reduce \/ DummyLosses \/ ClsLossStep \/ BoxLossStep

Spec == Init /\ [][Next]_vars

InitMultiBox == MultiBoxInit /\ YoloIdle /\ SceIdle /\ DistillIdle /\ TrainIdle /\ CropIdle /\ IouIdle

NextMultiBox ==
    CountPos \/ Reduce \/ DummyLosses \/ MaskLossStep \/ ClsLossStep \/ BoxLossStep

SpecMultiBox == InitMultiBox /\ [][NextMultiBox]_vars

InitYOLOV3 == SSDIdle /\ YoloInit /\ SceIdle /\ DistillIdle /\ TrainIdle /\ CropIdle /\ IouIdle

NextYOLOV3 == YoloObjness

SpecYOLOV3 == InitYOLOV3 /\ [][NextYOLOV3]_vars

InitSoftmaxCE == SSDIdle /\ YoloIdle /\ SceInit /\ DistillIdle /\ TrainIdle /\ CropIdle /\ IouIdle

NextSoftmaxCE == SoftmaxCE \/ SoftmaxCEOHEM

SpecSoftmaxCE == InitSoftmaxCE /\ [][NextSoftmaxCE]_vars

InitDistill == SSDIdle /\ YoloIdle /\ SceIdle /\ DistillInit /\ TrainIdle /\ CropIdle /\ IouIdle

NextDistill == DistillForward

SpecDistill == InitDistill /\ [][NextDistill]_vars

InitTrain == SSDIdle /\ YoloIdle /\ SceIdle /\ DistillIdle /\ TrainInit /\ CropIdle /\ IouIdle

NextTrain ==
    \/ EpochStart \/ NetForward \/ LossFn \/ Backward \/ TrainerStep
    \/ BatchEnd \/ EpochEnd \/ TrainReturn

SpecTrain == InitTrain /\ [][NextTrain]_vars

InitCrop ==
    /\ SSDIdle /\ YoloIdle /\ SceIdle /\ DistillIdle /\ TrainIdle /\ CropInit
    /\ IouIdle

NextCrop == CropCall

SpecCrop == InitCrop /\ [][NextCrop]_vars

InitIoU ==
    /\ SSDIdle /\ YoloIdle /\ SceIdle /\ DistillIdle /\ TrainIdle /\ CropIdle
    /\ IouInit

NextIoU == IouForward

SpecIoU == InitIoU /\ [][NextIoU]_vars

(***************************************************************************)
(* Properties of SSDMultiBoxLoss.forward                                   *)
(***************************************************************************)
\* the device whose loop iteration computed the current ce_loss, rank, ...
CurDev == i

Mined == ce_loss # Unset

Negatives == {a \in DOMAIN cls_target[CurDev] : cls_target[CurDev][a] <= 0}

Positives == {a \in DOMAIN cls_target[CurDev] : cls_target[CurDev][a] > 0}

\* the negatives the mask of line 162 lets through
KeptNegatives == {a \in Negatives : hard_negative[a] > 0}

DroppedNegatives == Negatives \ KeptNegatives

\* max(min_hard_negatives, negative_mining_ratio * number of positives of the image)
MiningBound ==
    RMax(Rat(min_hard_negatives),
         RMul(negative_mining_ratio, Rat(Cardinality(Positives))))

TotalPositives ==
    Cardinality({da \in UNION {{d} \X DOMAIN cls_target[d] : d \in DOMAIN cls_target} :
                    cls_target[da[1]][da[2]] > 0})

\* C1 as stated: the number of negative anchors kept in the classification
\* loss of an image is at most max(min_hard_negatives, ratio * positives).
C1_KeptAtMostBound ==
    Mined => RLeq(Rat(Cardinality(KeptNegatives)), MiningBound)

\* C1 amended: the number of negative anchors kept in the classification loss
\* of an image is less than max(min_hard_negatives, ratio * positives) + 1,
\* that is, at most that bound rounded up to an integer.
C1_KeptBelowBoundPlusOne ==
    Mined => RLess(Rat(Cardinality(KeptNegatives)), RAdd(MiningBound, Rat(1)))

\* a mined image where the bound bites: a negative is left out, and as many
\* negatives are kept as the bound allows
C1_Witness ==
    /\ Mined
    /\ DroppedNegatives # {}
    /\ KeptNegatives # {}
    /\ RLeq(MiningBound, Rat(Cardinality(KeptNegatives)))

\* C2: an image with at least min_hard_negatives negative anchors keeps at
\* least min_hard_negatives negative anchors in the classification loss.
C2_KeepsMinHardNegatives ==
    Mined =>
        (Cardinality(Negatives) >= min_hard_negatives
            => Cardinality(KeptNegatives) >= min_hard_negatives)

\* C3: num_pos_all is the number of positive anchors over all devices, and
\* every device's classification and box loss is divided by the same value
\* max(1, num_pos_all), which is at least 1.
C3_BatchWideNormalizer ==
    /\ pc \in {"branch", "next", "cls", "box", "done"} => num_pos_all = TotalPositives
    /\ \A d \in 1 .. Len(cls_norm) :
          cls_norm[d] = Max(1, TotalPositives) /\ cls_norm[d] >= 1
    /\ \A d \in 1 .. Len(box_norm) :
          box_norm[d] = Max(1, TotalPositives) /\ box_norm[d] >= 1

\* the mining path has finished on a batch whose positives are unevenly
\* distributed: one device has none, another has some
C3_Witness ==
    /\ pc = "done" /\ branch = "mining"
    /\ Len(cls_norm) = Len(cls_target) /\ Len(box_norm) = Len(cls_target)
    /\ \E d, e \in DOMAIN cls_target :
          PosCount(cls_target[d]) = 0 /\ PosCount(cls_target[e]) > 0

AllZero(losses) == \A d \in 1 .. Len(losses) : losses[d][1] = 0

C5_SumIsClsPlusLambdBox ==
    /\ \A d \in 1 .. Len(sum_losses) :
          REq(sum_losses[d],
              RAdd(cls_losses[d], RMul(Rat(lambd), box_losses[d])))
    /\ pc = "done" =>
          /\ Len(sum_losses) = Len(cls_target)
          /\ Len(cls_losses) = Len(cls_target)
          /\ Len(box_losses) = Len(cls_target)
    /\ (branch = "mining" /\ box_loss # Unset) =>
          /\ Len(sum_losses) = CurDev
          /\ REq(cls_losses[CurDev],
                 RDivInt(Rat(SumOver(cls_loss, DOMAIN cls_loss)), Max(1, TotalPositives)))
          /\ REq(box_losses[CurDev],
                 RDivInt(RSumOver(box_loss, DOMAIN box_loss), Max(1, TotalPositives)))

\* the mining path has finished with lambd = 2 and a device whose box loss
\* and classification loss are both non-zero
C5_Witness ==
    /\ pc = "done" /\ branch = "mining" /\ lambd = 2
    /\ \E d \in 1 .. Len(sum_losses) :
          box_losses[d][1] > 0 /\ cls_losses[d][1] > 0

\* C6: an anchor with cls_target <= 0 contributes zero to the box loss
\* whatever its box prediction and target are, also when it is a hard
\* negative: the box loss of a device is the smooth-L1 sum over its positives.
C6_BoxLossOnlyPositives ==
    box_loss # Unset =>
        /\ \A a \in Negatives : box_loss[a][1] = 0
        /\ REq(box_losses[CurDev],
               RDivInt(RSumOver([a \in DOMAIN box_abs |->
                                   IF a \in Positives THEN SmoothL1(box_abs[a])
                                                      ELSE Rat(0)], DOMAIN box_abs),
                       cls_norm[CurDev]))

\* a hard negative whose box prediction differs from its box target
C6_Witness ==
    /\ box_loss # Unset
    /\ \E a \in Negatives : box_abs[a] > 0 /\ hard_negative[a] > 0

\* C10: in one image no negative anchor left out of the classification loss
\* has a strictly greater cross entropy than a negative anchor that was kept,
\* and every positive anchor is kept whatever its rank.
C10_HardestNegativesKept ==
    Mined =>
        /\ \A a \in KeptNegatives : \A b \in DroppedNegatives :
              ce_loss[b] <= ce_loss[a]
        /\ \A a \in KeptNegatives : cls_loss[a] = ce_loss[a]
        /\ \A a \in DroppedNegatives : cls_loss[a] = 0
        /\ \A a \in Positives : cls_loss[a] = ce_loss[a]

\* next to a positive anchor, mining chose between two negatives of different
\* loss
C10_Witness ==
    /\ Mined /\ Positives # {}
    /\ \E a \in KeptNegatives : \E b \in DroppedNegatives : ce_loss[b] < ce_loss[a]

(***************************************************************************)
(* Properties of YOLOV3Loss                                                *)
(***************************************************************************)
\* C7: an anchor with objness_t = -1 gets objectness-loss weight 0 and
\* contributes nothing, an anchor with objness_t = 0 gets weight 1 and
\* target 0, an anchor with objness_t > 0 gets target 1 and weight objness_t.
C7_ObjectnessTargetsAndWeights ==
    obj_loss # Unset =>
        /\ \A a \in YoloAnchors :
              /\ objness_t[a] = <<-1, 1>> =>
                    REq(new_objness_mask[a], Rat(0)) /\ obj_weighted[a][1] = 0
              /\ objness_t[a] = <<0, 1>> =>
                    /\ REq(new_objness_mask[a], Rat(1))
                    /\ REq(hard_objness_t[a], Rat(0))
                    /\ REq(obj_weighted[a], Rat(obj_elem[a]))
              /\ RLess(Rat(0), objness_t[a]) =>
                    /\ REq(hard_objness_t[a], Rat(1))
                    /\ REq(new_objness_mask[a], objness_t[a])
                    /\ REq(obj_weighted[a], RMul(Rat(obj_elem[a]), objness_t[a]))
        /\ REq(obj_loss,
               RSumOver([a \in YoloAnchors |->
                           IF objness_t[a] = <<-1, 1>> THEN Rat(0)
                           ELSE obj_weighted[a]], YoloAnchors))

\* a sample with an ignored anchor, a negative anchor and a mixup-weighted
\* positive anchor, each with a non-zero element-wise loss
C7_Witness ==
    /\ obj_loss # Unset
    /\ \E a, b, c \in YoloAnchors :
          /\ objness_t[a] = <<-1, 1>> /\ obj_elem[a] > 0
          /\ objness_t[b] = <<0, 1>> /\ obj_elem[b] > 0
          /\ objness_t[c] = <<1, 2>> /\ obj_elem[c] > 0

(***************************************************************************)
(* Properties of SoftmaxCrossEntropyLoss and SoftmaxCrossEntropyOHEMLoss   *)
(***************************************************************************)
\* C8: with sparse labels every position whose label is ignore_label
\* contributes zero to the returned loss and every other position
\* contributes its cross-entropy term.
C8_IgnoredPositionsContributeZero ==
    sce_out # Unset =>
        /\ \A p \in Positions :
              /\ label[p] = ignore_label => sce_elem[p] = 0
              /\ label[p] # ignore_label => sce_elem[p] = nll[p][label[p]]
        /\ REq(sce_out,
               RDivInt(Rat(SumOver([p \in Positions |->
                                      IF label[p] = ignore_label THEN 0
                                      ELSE nll[p][label[p]]], Positions)),
                       Cardinality(Positions)))

\* the OHEM loss on an ignored position whose cross entropy is non-zero for
\* every class, next to a position that counts
C8_Witness ==
    /\ sce_out # Unset /\ ohem
    /\ \E p, q \in Positions :
          /\ label[p] = ignore_label /\ \A c \in Classes : nll[p][c] > 0
          /\ label[q] # ignore_label /\ sce_elem[q] > 0

(***************************************************************************)
(* Properties of DistillationSoftmaxCrossEntropyLoss                       *)
(***************************************************************************)
\* C9: for every hard_weight, also 0 and 1, the loss returned is
\* (1 - hard_weight) * temperature^2 * soft_loss + hard_weight * hard_loss.
C9_DistillationFormula ==
    distill_out # Unset =>
        REq(distill_out,
            RAdd(RMul(<<hard_weight[2] - hard_weight[1], hard_weight[2]>>,
                      Rat(temperature * temperature * soft_value)),
                 RMul(hard_weight, Rat(hard_value))))

\* the branch hard_weight == 0 was taken with a temperature above 1 and
\* non-zero soft and hard losses
C9_Witness ==
    /\ distill_out # Unset
    /\ hard_weight = <<0, 1>>
    /\ temperature > 1 /\ soft_value > 0 /\ hard_value > 0

(***************************************************************************)
(* Properties of train()                                                   *)
(***************************************************************************)
\* the devices in list order
AllCtx == [d \in 1 .. num_ctx |-> d]

\* mini-batches finished before the current one, inside an epoch
BatchesDone == epoch * num_batch + batch_i

\* C11: within a mini-batch the output and loss of every device are computed
\* before the first backward, backward is called once for every device's
\* loss before trainer.step, trainer.step is called exactly once before the
\* next mini-batch starts, and when train() returns after E epochs of B
\* mini-batches, trainer.step was called E * B times and iteration = E * B.
C11_BatchSequenceAndStepCount ==
    /\ tpc \in {"forward", "loss"} =>
          /\ backward_calls = <<>>
          /\ step_calls = BatchesDone /\ iteration = BatchesDone
          /\ batch_i < num_batch
    /\ tpc = "backward" =>
          /\ output = AllCtx /\ loss_list = AllCtx
          /\ backward_calls = SubSeq(AllCtx, 1, Len(backward_calls))
          /\ Len(backward_calls) < num_ctx
          /\ step_calls = BatchesDone /\ iteration = BatchesDone
    /\ tpc = "step" =>
          /\ output = AllCtx /\ loss_list = AllCtx /\ backward_calls = AllCtx
          /\ step_calls = BatchesDone /\ iteration = BatchesDone
    /\ tpc = "update" =>
          /\ backward_calls = AllCtx
          /\ step_calls = BatchesDone + 1 /\ iteration = BatchesDone
    /\ tpc = "epoch_end" =>
          /\ batch_i = num_batch
          /\ step_calls = BatchesDone /\ iteration = BatchesDone
    /\ tpc = "epoch" =>
          step_calls = epoch * num_batch /\ iteration = epoch * num_batch
    /\ tpc = "done" =>
          /\ epoch = epochs
          /\ step_calls = epochs * num_batch /\ iteration = epochs * num_batch

\* train() has returned after several epochs of several mini-batches on
\* several devices
C11_Witness ==
    /\ tpc = "done"
    /\ epochs > 1 /\ num_batch > 1 /\ num_ctx > 1
    /\ step_calls = epochs * num_batch

(***************************************************************************)
(* Properties of crop                                                      *)
(***************************************************************************)
\* r is v / Scale rounded to the nearest integer, a half going away from zero
IsRounded(r, v) ==
    \/ 2 * Abs(Scale * r - v) < Scale
    \/ 2 * Abs(Scale * r - v) = Scale /\ Scale * Abs(r) > Abs(v)

\* v / Scale rounded
Rounded(v) == CHOOSE r \in -2 .. 2 : IsRounded(r, v)

\* pixel (y, x) lies in the rounded, scaled-down box, both bounds inclusive
InsideBox(box, y, x) ==
    /\ Rounded(box[1]) <= x /\ x <= Rounded(box[3])
    /\ Rounded(box[2]) <= y /\ y <= Rounded(box[4])

\* C12: crop leaves the mask value at pixel (y, x) of box b unchanged when
\* round(x1/4) <= x <= round(x2/4) and round(y1/4) <= y <= round(y2/4), and
\* sets it to zero otherwise; a second crop with the same boxes changes
\* nothing.
C12_CropKeepsBoxZeroesRest ==
    /\ Len(crop_out) >= 1 =>
          \A b \in CropBoxes : \A y \in MaskRows : \A x \in MaskCols :
              crop_out[1][b][y][x] =
                  IF InsideBox(crop_bboxes[b], y, x) THEN crop_masks[b][y][x] ELSE 0
    /\ Len(crop_out) = 2 => crop_out[2] = crop_out[1]

\* crop was applied twice to two different boxes; in one mask a non-zero
\* pixel on the box's inclusive upper bounds was kept and a non-zero pixel
\* outside the box was zeroed
C12_Witness ==
    /\ Len(crop_out) = 2
    /\ crop_bboxes[1] # crop_bboxes[2]
    /\ \E b \in CropBoxes :
          /\ \E y \in MaskRows : \E x \in MaskCols :
                /\ x = RoundDiv(crop_bboxes[b][3], Scale)
                /\ y = RoundDiv(crop_bboxes[b][4], Scale)
                /\ crop_masks[b][y][x] > 0 /\ crop_out[2][b][y][x] > 0
          /\ \E y \in MaskRows : \E x \in MaskCols :
                crop_masks[b][y][x] > 0 /\ crop_out[2][b][y][x] = 0

(***************************************************************************)
(* Properties of IOULoss.hybrid_forward                                    *)
(***************************************************************************)
\* C13: for every pair of well-formed boxes with integer coordinates the
\* computed IoU lies in [0, 1], also for identical and for disjoint boxes.
C13_IousInUnitRange ==
    ious # Unset => RLeq(Rat(0), ious) /\ RLeq(ious, Rat(1))

====
